---- MODULE Spec2Model ----
(***************************************************************************)
(* Daemon lifecycle of copilot-proxy-server: the DaemonController state    *)
(* machine (src/daemon/controller.ts), the readiness flag and the          *)
(* active-request counter of the HTTP server (src/server.ts), and the      *)
(* runServer wiring (src/start.ts).                                        *)
(*                                                                         *)
(* JavaScript runs one synchronous segment at a time; a segment ends at an *)
(* await on something not yet settled, or at the end of the handler.  The  *)
(* variable running names the call whose synchronous segment is being      *)
(* executed (0: none, the event loop is free to pick the next event; -1:   *)
(* start(); t >= 1: the beginShutdown / forceTerminate call in slot t).    *)
(* Time is counted in units of the drain loop's sleep (200 ms).            *)
(***************************************************************************)
EXTENDS Integers, Sequences, FiniteSets, TLC

\* ---- bounds of the model
MaxHooks == 1          \* hooks registered through registerHook()
MaxTasks == 2          \* beginShutdown / forceTerminate calls in one run
MaxRequests == 2       \* HTTP requests in one run
MaxTime == 3           \* the clock stops here
MaxCli == 2            \* copilot-proxy commands in one run
StalePid == 7          \* a PID left in the file by a process long gone
MaxPid == 25           \* the PIDs the round trip is computed for
MaxRuns == 5           \* executions of the task of a resilient interval
MaxIvTime == 16        \* its clock stops here
ShutdownTimeout == 2   \* opts.shutdownTimeoutMs, in sleeps of the drain loop

\* ---- program constants
PollInterval == 1      \* setTimeout(r, 200): one unit of time
ExitClean == 0
ExitFailed == 1
ExitForced == 2
Retries == 3               \* let retries = 3
DefaultMultiplier == 2     \* opts.backoffMultiplier ?? 2
DefaultCapFactor == 10     \* opts.maxBackoffMs ?? intervalMs * 10
StopPollMs == 200                \* stopCommand: setTimeout(r, 200)
StopWaitMs == 10000              \* stopCommand: Date.now() - start < 10000
DaemonShutdownTimeoutMs == 30000 \* runServer: shutdownTimeoutMs: 30000
StatusOk == 200            \* c.json({ message }): the acknowledgement
StatusForbidden == 403     \* c.text("Forbidden", 403)
StatusUnavailable == 503   \* c.text("Server is shutting down", 503)

VARIABLES
  state,           \* DaemonController.state
  hooks,           \* DaemonController.hooks: sequence of [kind, rm, late]
  forced,          \* DaemonController.forced
  pidWritten,      \* DaemonController.pidWritten
  exitOnShutdown,  \* DaemonController.exitOnShutdown (constructor option)
  ready,           \* server.ts: let ready
  activeRequests,  \* server.ts: let activeRequests
  req,             \* each HTTP request's position in the middleware
  adminTimer,      \* the setTimeout of POST /admin/shutdown is pending
  startPc,         \* position of the start() call
  tasks,           \* the beginShutdown / forceTerminate calls
  running,         \* the call whose synchronous segment is executing
  now,             \* Date.now(), counted from the first beginShutdown()
  exited,          \* process.exit() was called
  exitCode,        \* its argument (-1 before)
  pidFile,         \* the PID file exists
  viaRunServer,    \* the controller was built and started by runServer()
  status,          \* status of the last response the middleware or the
                   \* admin endpoint produced itself (0: none yet)
  \* -- the PID file, the daemons and the CLI (pid.ts, copilot-proxy.ts)
  record,          \* content of PID_PATH (NoFile when absent)
  tmp,             \* content of the writer's temporary file
  daemons,         \* each detached child: its position in writePid() etc.
  cli,             \* each copilot-proxy command in progress
  \* -- startResilientInterval (a closure: its locals and its arguments)
  intervalMs, multiplier, maxBackoff,
  stopped, timer, consecutiveFailures,
  inFlight,        \* fn() was called and has not settled
  ivNow,           \* the clock of the timers
  runs,            \* executions of fn begun so far
  ivStarted,       \* startResilientInterval() was called
  timers,          \* the due times of the timers the runtime holds
  active,          \* executions of fn begun and not settled
  \* -- lib/interactive.ts: the last call, its inputs and what came of it
  uiCall, uiOpts, uiStdin, uiResult, uiThrew

cliVars == <<record, tmp, daemons, cli>>

ivVars == <<intervalMs, multiplier, maxBackoff, stopped, timer,
            consecutiveFailures, inFlight, ivNow, runs, ivStarted,
            timers, active>>

uiVars == <<uiCall, uiOpts, uiStdin, uiResult, uiThrew>>

coreVars == <<state, hooks, forced, pidWritten, exitOnShutdown, ready,
              activeRequests, req, adminTimer, startPc, tasks, running,
              now, exited, exitCode, pidFile, viaRunServer, status>>

vars == <<state, hooks, forced, pidWritten, exitOnShutdown, ready,
          activeRequests, req, adminTimer, startPc, tasks, running,
          now, exited, exitCode, pidFile, viaRunServer, status, cliVars, ivVars, uiVars>>

LifecycleState == {"init", "starting", "ready", "draining", "stopped", "failed"}

\* What a hook does when it is called: "async" returns a promise that settles
\* later (it resolves or rejects), "hang" one that never settles, "throw"
\* throws synchronously.
HookKinds == {"async", "hang", "throw"}
AsyncKinds == {"async", "hang"}

TaskIds == 1..MaxTasks
ReqIds == 1..MaxRequests

NoTask == [kind |-> "none", pc |-> "none", deadline |-> 0, wake |-> 0,
           pend |-> {}, out |-> "none", sawZero |-> FALSE]

\* ---- helpers

HasFreeSlot == \E t \in TaskIds : tasks[t].kind = "none"
FreeSlot == CHOOSE t \in TaskIds :
              /\ tasks[t].kind = "none"
              /\ \A u \in TaskIds : u < t => tasks[u].kind # "none"

\* (mutant) the hooks are called without the try/catch around each: the
\* first that throws ends the map.
GracefulPendingAbort(hs) ==
  IF \E i \in 1..Len(hs) : hs[i].kind = "throw"
  THEN {}
  ELSE {i \in 1..Len(hs) : hs[i].kind \in {"async", "hang"}}

\* this.hooks.map(async (h) => { try { await h() } catch {} }): every hook is
\* called; the promises still pending afterwards are those of the hooks that
\* returned a pending promise.
GracefulPending(hs) == {i \in 1..Len(hs) : hs[i].kind \in AsyncKinds}

\* this.hooks.map((h) => h()) inside try/catch: a hook that throws
\* synchronously ends the map, the hooks after it are not called and
\* Promise.allSettled is never reached.
FirstThrow(hs) ==
  IF \E i \in 1..Len(hs) : hs[i].kind = "throw"
  THEN CHOOSE i \in 1..Len(hs) :
         /\ hs[i].kind = "throw"
         /\ \A j \in 1..(i - 1) : hs[j].kind # "throw"
  ELSE Len(hs) + 1
ForcePending(hs) ==
  IF FirstThrow(hs) <= Len(hs) THEN {}
  ELSE {i \in 1..Len(hs) : hs[i].kind \in AsyncKinds}

\* The hooks forceTerminate() calls: all of them, or those up to the first
\* that throws.
ForceInvoked(hs) ==
  1..(IF FirstThrow(hs) <= Len(hs) THEN FirstThrow(hs) ELSE Len(hs))

\* process.on("exit"): removePid() is started when the PID file was written;
\* the process may end before the unlink takes effect.
ExitPidFile == IF pidWritten THEN {pidFile, FALSE} ELSE {pidFile}

\* The listener is bound by the start function.
Listening == startPc \in {"awaitStartFn", "awaitWritePid", "done"}

\* What may happen between two events of the process.
EventLoopFree == ~exited /\ running = 0

\* ---- pid.ts: the PID file

\* Files hold sequences of characters; a path with no file reads as NoFile.
NoFile == <<"ENOENT">>

\* JavaScript values: null, NaN, or a number.
Null == [kind |-> "null", n |-> 0]
NaN == [kind |-> "NaN", n |-> 0]
Num(n) == [kind |-> "number", n |-> n]

Digits == <<"0", "1", "2", "3", "4", "5", "6", "7", "8", "9">>
IsDigit(c) == \E d \in 1..10 : Digits[d] = c
DigitOf(c) == (CHOOSE d \in 1..10 : Digits[d] = c) - 1
Whitespace == {" ", "\n"}

\* (mutant) only the last digit is written.
StringLastDigit(n) == <<Digits[(n % 10) + 1]>>

\* String(pid), for a non-negative integer: its decimal digits.
RECURSIVE String(_)
String(n) ==
  IF n < 10 THEN <<Digits[n + 1]>>
  ELSE Append(String(n \div 10), Digits[(n % 10) + 1])

\* content.trim()
RECURSIVE Trim(_)
Trim(s) ==
  IF s = <<>> THEN s
  ELSE IF Head(s) \in Whitespace THEN Trim(Tail(s))
  ELSE IF s[Len(s)] \in Whitespace THEN Trim(SubSeq(s, 1, Len(s) - 1))
  ELSE s

RECURSIVE DigitsValue(_)
DigitsValue(s) ==
  IF s = <<>> THEN 0
  ELSE 10 * DigitsValue(SubSeq(s, 1, Len(s) - 1)) + DigitOf(s[Len(s)])

AllDigits(s) == s # <<>> /\ \A i \in 1..Len(s) : IsDigit(s[i])

\* Number(text), over the characters of the model (digits, "-", letters and
\* white space): the empty string is 0, a run of digits with an optional
\* sign is its value, anything else is NaN.
Number(s) ==
  LET t == Trim(s) IN
  IF t = <<>> THEN Num(0)
  ELSE IF AllDigits(t) THEN Num(DigitsValue(t))
  ELSE IF Head(t) = "-" /\ AllDigits(Tail(t)) THEN Num(0 - DigitsValue(Tail(t)))
  ELSE NaN

\* readPid() on a PID file of the given content: null when the file cannot be
\* read or Number.isNaN(pid), else the number.
readPid(content) ==
  IF content = NoFile THEN Null
  ELSE LET pid == Number(Trim(content)) IN
       IF pid = NaN THEN Null ELSE pid

\* !pid
Not(v) == v = Null \/ v = NaN \/ v = Num(0)

\* The PIDs the operating system gives to the detached children.
DaemonPids == {12, 305}
CliIds == 1..MaxCli

NoDaemon == [pc |-> "none", retries |-> 0, wrote |-> FALSE]
\* waited: what Date.now() - start was when stopCommand last read the clock.
NoCli == [cmd |-> "none", pc |-> "none", pid |-> Null, out |-> "none",
          waited |-> 0]

\* No daemon was spawned and no command was run.
CliIdle ==
  /\ record = NoFile
  /\ tmp = [d \in DaemonPids |-> NoFile]
  /\ daemons = [d \in DaemonPids |-> NoDaemon]
  /\ cli = [c \in CliIds |-> NoCli]

\* ---- startResilientInterval: the state before it is called

NoTimer == <<>>

IvIdle ==
  /\ intervalMs = 0
  /\ multiplier = <<0, 1>>
  /\ maxBackoff = 0
  /\ stopped = FALSE
  /\ timer = NoTimer
  /\ consecutiveFailures = 0
  /\ inFlight = FALSE
  /\ ivNow = 0
  /\ runs = 0
  /\ ivStarted = FALSE
  /\ timers = {}
  /\ active = 0

\* ---- lib/interactive.ts: before any call

\* An option is absent, false or true; only true is truthy.
OptionValues == {"undefined", "false", "true"}
NoOptions == [daemon |-> "undefined", noInteractive |-> "undefined",
              forceInteractive |-> "undefined"]

UiIdle ==
  /\ uiCall = "none"
  /\ uiOpts = NoOptions
  /\ uiStdin = "undefined"
  /\ uiResult = FALSE
  /\ uiThrew = FALSE

\* The controller and the server as they are after construction.
CoreInit ==
  /\ state = "init"
  /\ hooks = <<>>
  /\ forced = FALSE
  /\ pidWritten = FALSE
  /\ viaRunServer \in BOOLEAN
  /\ exitOnShutdown \in (IF viaRunServer THEN {TRUE} ELSE BOOLEAN)
  /\ ready = TRUE
  /\ activeRequests = 0
  /\ req = [r \in ReqIds |-> "idle"]
  /\ adminTimer = FALSE
  /\ startPc = "idle"
  /\ tasks = [t \in TaskIds |-> NoTask]
  /\ running = 0
  /\ now = 0
  /\ exited = FALSE
  /\ exitCode = -1
  /\ pidFile = FALSE
  /\ status = 0

\* ---- Init

Init == CoreInit /\ CliIdle /\ IvIdle /\ UiIdle

\* ---- registerHook

\* A beginShutdown() call has begun: the state has been set to "draining".
DrainingBegun == \E t \in TaskIds : tasks[t].kind = "shutdown"

\* this.hooks.push(hook), whatever the state.  The field late records that
\* the hook was pushed after draining had begun.
RegisterHook(k) ==
  /\ EventLoopFree
  /\ Len(hooks) < MaxHooks
  /\ hooks' = Append(hooks, [kind |-> k, rm |-> FALSE, late |-> DrainingBegun])
  /\ UNCHANGED <<state, forced, pidWritten, exitOnShutdown, ready,
                 activeRequests, req, adminTimer, startPc, tasks,
                 running, now, exited, exitCode, pidFile, viaRunServer, status, cliVars, ivVars, uiVars>>

\* ---- start()

\* process.exit(code), with the "exit" listener of the constructor.
ProcessExit(code) ==
  /\ exited' = TRUE
  /\ exitCode' = code
  /\ pidFile' \in ExitPidFile

\* (mutant) start() without the check of the state.
StartCallUnguarded ==
  /\ EventLoopFree
  /\ viaRunServer => startPc = "idle"
  /\ state' = "starting"
  /\ startPc' = "awaitStartFn"
  /\ running' = IF viaRunServer THEN -1 ELSE 0
  /\ UNCHANGED <<exited, exitCode, pidFile>>
  /\ UNCHANGED <<hooks, forced, pidWritten, exitOnShutdown, ready,
                 activeRequests, req, adminTimer, tasks, now, viaRunServer,
                 status, cliVars, ivVars, uiVars>>

\* start(), up to the await of the start function; it throws when the state
\* is not "init".  runServer() builds the
\* controller and calls start() once, in the same synchronous segment, and
\* exits with code 1 when start() throws; its start function has no await, so
\* start() resumes before any other event.
StartCall ==
  /\ EventLoopFree
  /\ viaRunServer => startPc = "idle"
  /\ IF state # "init"
     THEN /\ UNCHANGED <<state, startPc, running>>
          /\ IF viaRunServer
             THEN ProcessExit(ExitFailed)
             ELSE UNCHANGED <<exited, exitCode, pidFile>>
     ELSE /\ state' = "starting"
          /\ startPc' = "awaitStartFn"
          /\ running' = IF viaRunServer THEN -1 ELSE 0
          /\ UNCHANGED <<exited, exitCode, pidFile>>
  /\ UNCHANGED <<hooks, forced, pidWritten, exitOnShutdown, ready,
                 activeRequests, req, adminTimer, tasks, now, viaRunServer, status, cliVars, ivVars, uiVars>>

\* (mutant) writePid() is awaited whatever the environment says.
StartFnResolveAlwaysWrites(daemonChild) ==
  /\ ~exited
  /\ startPc = "awaitStartFn"
  /\ running \in {0, -1}
  /\ state' = "ready"
  /\ ready' = TRUE
  /\ startPc' = "awaitWritePid"
  /\ running' = 0
  /\ UNCHANGED <<hooks, forced, pidWritten, exitOnShutdown, activeRequests,
                 req, adminTimer, tasks, now, exited, exitCode,
                 pidFile, viaRunServer, status, cliVars, ivVars, uiVars>>

\* The start function resolved: state = "ready", setReadiness(true), and in a
\* detached child (process.env._COPILOT_DAEMON_CHILD === "1", read here) the
\* await of writePid().
StartFnResolve(daemonChild) ==
  /\ ~exited
  /\ startPc = "awaitStartFn"
  /\ running \in {0, -1}
  /\ state' = "ready"
  /\ ready' = TRUE
  /\ startPc' = IF daemonChild THEN "awaitWritePid" ELSE "done"
  /\ running' = 0
  /\ UNCHANGED <<hooks, forced, pidWritten, exitOnShutdown, activeRequests,
                 req, adminTimer, tasks, now, exited, exitCode,
                 pidFile, viaRunServer, status, cliVars, ivVars, uiVars>>

\* (mutant) a rejected start function is called again.
StartFnRejectRetry ==
  /\ ~exited
  /\ startPc = "awaitStartFn"
  /\ running \in {0, -1}
  /\ state' = "starting"
  /\ startPc' = "awaitStartFn"
  /\ running' = 0
  /\ UNCHANGED <<exited, exitCode, pidFile>>
  /\ UNCHANGED <<hooks, forced, pidWritten, exitOnShutdown, ready,
                 activeRequests, req, adminTimer, tasks, now, viaRunServer,
                 status, cliVars, ivVars, uiVars>>

\* The start function rejected: state = "failed" and the error is rethrown.
StartFnReject ==
  /\ ~exited
  /\ startPc = "awaitStartFn"
  /\ running \in {0, -1}
  /\ state' = "failed"
  /\ startPc' = "threw"
  /\ running' = 0
  /\ IF viaRunServer
     THEN ProcessExit(ExitFailed)
     ELSE UNCHANGED <<exited, exitCode, pidFile>>
  /\ UNCHANGED <<hooks, forced, pidWritten, exitOnShutdown, ready,
                 activeRequests, req, adminTimer, tasks, now, viaRunServer, status, cliVars, ivVars, uiVars>>

\* (mutant) a failed writePid() is caught by the outer catch of start().
WritePidSettledFatal(ok) ==
  /\ EventLoopFree
  /\ startPc = "awaitWritePid"
  /\ IF ok
     THEN /\ pidFile' = TRUE
          /\ pidWritten' = TRUE
          /\ hooks' = Append(hooks, [kind |-> "async", rm |-> TRUE,
                                     late |-> DrainingBegun])
          /\ startPc' = "done"
          /\ UNCHANGED state
     ELSE /\ state' = "failed"
          /\ startPc' = "threw"
          /\ UNCHANGED <<pidFile, pidWritten, hooks>>
  /\ UNCHANGED <<forced, exitOnShutdown, ready, activeRequests, req,
                 adminTimer, tasks, running, now, exited, exitCode,
                 viaRunServer, status, cliVars, ivVars, uiVars>>

\* writePid() settled: on success pidWritten = true and the hook that removes
\* the PID file is registered; on failure a warning, nothing else.
WritePidSettled(ok) ==
  /\ EventLoopFree
  /\ startPc = "awaitWritePid"
  /\ startPc' = "done"
  /\ IF ok
     THEN /\ pidFile' = TRUE
          /\ pidWritten' = TRUE
          /\ hooks' = Append(hooks, [kind |-> "async", rm |-> TRUE,
                                     late |-> DrainingBegun])
     ELSE UNCHANGED <<pidFile, pidWritten, hooks>>
  /\ UNCHANGED <<state, forced, exitOnShutdown, ready, activeRequests, req,
                 adminTimer, tasks, running, now, exited, exitCode,
                 viaRunServer, status, cliVars, ivVars, uiVars>>

\* ---- beginShutdown(), handleSignal()

\* Outside runServer() the controller is driven by its caller; inside, nothing
\* happens between the constructor and start().
Driven == viaRunServer => startPc # "idle"

\* (mutant) beginShutdown() without the check of line 154.
BeginShutdownUnguarded ==
  /\ EventLoopFree
  /\ Driven
  /\ HasFreeSlot
  /\ state' = "draining"
  /\ tasks' = [tasks EXCEPT ![FreeSlot] =
                 [NoTask EXCEPT !.kind = "shutdown", !.pc = "gate"]]
  /\ running' = FreeSlot
  /\ UNCHANGED <<hooks, forced, pidWritten, exitOnShutdown, ready,
                 activeRequests, req, adminTimer, startPc, now, exited,
                 exitCode, pidFile, viaRunServer, status, cliVars, ivVars, uiVars>>

\* beginShutdown(reason), lines 154-155: return when stopped, else
\* state = "draining"; the call goes on in slot FreeSlot.
BeginShutdown ==
  /\ EventLoopFree
  /\ Driven
  /\ IF state = "stopped"
     THEN UNCHANGED <<state, tasks, running>>
     ELSE /\ HasFreeSlot
          /\ state' = "draining"
          /\ tasks' = [tasks EXCEPT ![FreeSlot] =
                         [NoTask EXCEPT !.kind = "shutdown", !.pc = "gate"]]
          /\ running' = FreeSlot
  /\ UNCHANGED <<hooks, forced, pidWritten, exitOnShutdown, ready,
                 activeRequests, req, adminTimer, startPc, now,
                 exited, exitCode, pidFile, viaRunServer, status, cliVars, ivVars, uiVars>>

\* A direct call of beginShutdown().
CallBeginShutdown == BeginShutdown

\* "uncaughtException" / "unhandledRejection": beginShutdown("fatal").
Fatal == BeginShutdown

\* handleSignal(signal): while draining, forced = true and forceTerminate();
\* otherwise beginShutdown(signal).
Signal ==
  IF state = "draining"
  THEN /\ EventLoopFree
       /\ Driven
       /\ HasFreeSlot
       /\ forced' = TRUE
       /\ tasks' = [tasks EXCEPT ![FreeSlot] =
                      [NoTask EXCEPT !.kind = "signal", !.pc = "forceInvoke"]]
       /\ running' = FreeSlot
       /\ UNCHANGED <<state, hooks, pidWritten, exitOnShutdown, ready,
                      activeRequests, req, adminTimer, startPc, now, exited, exitCode, pidFile, viaRunServer, status, cliVars, ivVars, uiVars>>
  ELSE BeginShutdown

\* ---- the body of beginShutdown(), one step per synchronous piece

TaskFrame == UNCHANGED <<pidWritten, exitOnShutdown, req, adminTimer, startPc,
                         viaRunServer, status, cliVars, ivVars, uiVars>>

\* (mutant) the deadline is taken but setReadiness(false) is not called
\* before the hooks.
CloseGateLate(t) ==
  /\ ~exited /\ running = t
  /\ tasks[t].pc = "gate"
  /\ tasks' = [tasks EXCEPT ![t].deadline = now + ShutdownTimeout,
                            ![t].pc = "hooks"]
  /\ TaskFrame
  /\ UNCHANGED <<state, hooks, forced, ready, activeRequests, running, now,
                 exited, exitCode, pidFile>>

\* Lines 160-166: setReadiness(false), then the deadline.
CloseGate(t) ==
  /\ ~exited /\ running = t
  /\ tasks[t].pc = "gate"
  /\ ready' = FALSE
  /\ tasks' = [tasks EXCEPT ![t].deadline = now + ShutdownTimeout,
                            ![t].pc = "hooks"]
  /\ TaskFrame
  /\ UNCHANGED <<state, hooks, forced, activeRequests, running, now, exited,
                 exitCode, pidFile>>

\* Lines 169-175: every registered hook is called; hookPromises.
InvokeHooks(t) ==
  /\ ~exited /\ running = t
  /\ tasks[t].pc = "hooks"
  /\ tasks' = [tasks EXCEPT ![t].pend = GracefulPending(hooks),
                            ![t].pc = "enterLoop"]
  /\ TaskFrame
  /\ UNCHANGED <<state, hooks, forced, ready, activeRequests, running, now, exited,
                 exitCode, pidFile>>

\* Lines 179-190: one evaluation of the loop condition and, when it holds,
\* one pass of the body: with no active request await the hook promises and
\* break, else sleep.  An await of promises that are all settled resumes
\* before any other event.  pc is "enterLoop" for the first evaluation, which
\* follows the hooks in the same segment, and "loop" after a sleep.
DrainLoop(t) ==
  /\ ~exited /\ running = t
  /\ tasks[t].pc \in {"enterLoop", "loop"}
  /\ IF now < tasks[t].deadline /\ ~forced
     THEN IF activeRequests = 0
          THEN /\ tasks' = [tasks EXCEPT ![t].pc = "awaitHooks",
                                         ![t].sawZero = TRUE]
               /\ running' = IF tasks[t].pend = {} THEN t ELSE 0
          ELSE /\ tasks' = [tasks EXCEPT ![t].pc = "sleep",
                                         ![t].wake = now + PollInterval]
               /\ running' = 0
     ELSE /\ tasks' = [tasks EXCEPT ![t].pc = "after"]
          /\ UNCHANGED running
  /\ TaskFrame
  /\ UNCHANGED <<state, hooks, forced, ready, activeRequests, now, exited,
                 exitCode, pidFile>>

\* The sleep of line 189 is over.
Wake(t) ==
  /\ ~exited /\ running = 0
  /\ tasks[t].pc = "sleep"
  /\ now >= tasks[t].wake
  /\ tasks' = [tasks EXCEPT ![t].pc = "loop", ![t].wake = 0]
  /\ running' = t
  /\ TaskFrame
  /\ UNCHANGED <<state, hooks, forced, ready, activeRequests, now, exited,
                 exitCode, pidFile>>

\* Line 183: Promise.allSettled(hookPromises) resolved; break.
HooksSettled(t) ==
  /\ ~exited /\ running \in {0, t}
  /\ tasks[t].pc = "awaitHooks"
  /\ tasks[t].pend = {}
  /\ tasks' = [tasks EXCEPT ![t].pc = "after"]
  /\ running' = t
  /\ TaskFrame
  /\ UNCHANGED <<state, hooks, forced, ready, activeRequests, now, exited,
                 exitCode, pidFile>>

\* (mutant) line 193 tests the forced flag only, not the deadline.
AfterLoopNoDeadline(t) ==
  /\ ~exited /\ running = t
  /\ tasks[t].pc = "after"
  /\ IF forced
     THEN /\ tasks' = [tasks EXCEPT ![t].pc = "forceInvoke"]
          /\ UNCHANGED running
     ELSE /\ tasks' = [tasks EXCEPT ![t].pc = "awaitClean"]
          /\ running' = IF tasks[t].pend = {} THEN t ELSE 0
  /\ TaskFrame
  /\ UNCHANGED <<state, hooks, forced, ready, activeRequests, now, exited,
                 exitCode, pidFile>>

\* Lines 193-205: forced or past the deadline, forceTerminate(); otherwise the
\* hook promises are awaited once more.
AfterLoop(t) ==
  /\ ~exited /\ running = t
  /\ tasks[t].pc = "after"
  /\ IF forced \/ now >= tasks[t].deadline
     THEN /\ tasks' = [tasks EXCEPT ![t].pc = "forceInvoke"]
          /\ UNCHANGED running
     ELSE /\ tasks' = [tasks EXCEPT ![t].pc = "awaitClean"]
          /\ running' = IF tasks[t].pend = {} THEN t ELSE 0
  /\ TaskFrame
  /\ UNCHANGED <<state, hooks, forced, ready, activeRequests, now, exited,
                 exitCode, pidFile>>

\* (mutant) the clean end exits whatever exitOnShutdown says.
CleanEndExits(t) ==
  /\ ~exited /\ running \in {0, t}
  /\ tasks[t].pc = "awaitClean"
  /\ tasks[t].pend = {}
  /\ tasks' = [tasks EXCEPT ![t].pc = "done", ![t].out = "clean"]
  /\ running' = 0
  /\ ProcessExit(ExitClean) /\ UNCHANGED state
  /\ TaskFrame
  /\ UNCHANGED <<hooks, forced, ready, activeRequests, now>>

\* Lines 207-214: process.exit(0), or state = "stopped" when the controller
\* must not exit.
CleanEnd(t) ==
  /\ ~exited /\ running \in {0, t}
  /\ tasks[t].pc = "awaitClean"
  /\ tasks[t].pend = {}
  /\ tasks' = [tasks EXCEPT ![t].pc = "done", ![t].out = "clean"]
  /\ running' = 0
  /\ IF exitOnShutdown
     THEN ProcessExit(ExitClean) /\ UNCHANGED state
     ELSE state' = "stopped" /\ UNCHANGED <<exited, exitCode, pidFile>>
  /\ TaskFrame
  /\ UNCHANGED <<hooks, forced, ready, activeRequests, now>>

\* ---- forceTerminate()

\* Lines 222-227: the hooks are called again and awaited.
ForceInvoke(t) ==
  /\ ~exited /\ running = t
  /\ tasks[t].pc = "forceInvoke"
  /\ tasks' = [tasks EXCEPT ![t].pend = ForcePending(hooks),
                            ![t].pc = "forceAwait"]
  /\ running' = IF ForcePending(hooks) = {} THEN t ELSE 0
  /\ TaskFrame
  /\ UNCHANGED <<state, hooks, forced, ready, activeRequests, now, exited, exitCode,
                 pidFile>>

\* Lines 230-235: process.exit(2), or state = "stopped".
ForceEnd(t) ==
  /\ ~exited /\ running \in {0, t}
  /\ tasks[t].pc = "forceAwait"
  /\ tasks[t].pend = {}
  /\ tasks' = [tasks EXCEPT ![t].pc = "done", ![t].out = "forced"]
  /\ running' = 0
  /\ IF exitOnShutdown
     THEN ProcessExit(ExitForced) /\ UNCHANGED state
     ELSE state' = "stopped" /\ UNCHANGED <<exited, exitCode, pidFile>>
  /\ TaskFrame
  /\ UNCHANGED <<hooks, forced, ready, activeRequests, now>>

\* ---- hooks

\* A pending promise of a hook settles (a hanging hook's never does).  The
\* hook registered by start() has removed the PID file by then.
HookSettle(t, i) ==
  /\ EventLoopFree
  /\ i \in tasks[t].pend
  /\ hooks[i].kind = "async"
  /\ tasks' = [tasks EXCEPT ![t].pend = @ \ {i}]
  /\ pidFile' = IF hooks[i].rm THEN FALSE ELSE pidFile
  /\ TaskFrame
  /\ UNCHANGED <<state, hooks, forced, ready, activeRequests, running, now,
                 exited, exitCode>>

\* ---- the HTTP server

\* (mutant) the counter is incremented before the readiness flag is read.
RequestArriveCountFirst(r) ==
  /\ EventLoopFree
  /\ Listening
  /\ req[r] = "idle"
  /\ \A q \in ReqIds : q < r => req[q] # "idle"
  /\ activeRequests' = activeRequests + 1
  /\ IF ~ready
     THEN /\ status' = StatusUnavailable
          /\ req' = [req EXCEPT ![r] = "running"]
     ELSE /\ req' = [req EXCEPT ![r] = "running"]
          /\ UNCHANGED status
  /\ UNCHANGED <<state, hooks, forced, pidWritten, exitOnShutdown, ready,
                 adminTimer, startPc, tasks, running, now, exited,
                 exitCode, pidFile, viaRunServer, cliVars, ivVars, uiVars>>

\* The middleware of server.use(): 503 when not ready, else the counter is
\* incremented and next() awaited.
RequestArrive(r) ==
  /\ EventLoopFree
  /\ Listening
  /\ req[r] = "idle"
  /\ \A q \in ReqIds : q < r => req[q] # "idle"
  /\ IF ~ready
     THEN /\ status' = StatusUnavailable
          /\ UNCHANGED <<req, activeRequests>>
     ELSE /\ req' = [req EXCEPT ![r] = "running"]
          /\ activeRequests' = activeRequests + 1
          /\ UNCHANGED status
  /\ UNCHANGED <<state, hooks, forced, pidWritten, exitOnShutdown, ready,
                 adminTimer, startPc, tasks, running, now, exited,
                 exitCode, pidFile, viaRunServer, cliVars, ivVars, uiVars>>

\* (mutant) the decrement follows next() instead of standing in a finally
\* block: it is skipped when the handler throws.
RequestFinishNoFinally(r, outcome) ==
  /\ EventLoopFree
  /\ req[r] = "running"
  /\ outcome \in {"returned", "threw"}
  /\ req' = [req EXCEPT ![r] = "idle"]
  /\ activeRequests' = IF outcome = "returned" THEN activeRequests - 1
                       ELSE activeRequests
  /\ UNCHANGED <<state, hooks, forced, pidWritten, exitOnShutdown, ready,
                 adminTimer, startPc, tasks, running, now, exited, exitCode,
                 pidFile, viaRunServer, status, cliVars, ivVars, uiVars>>

\* next() returned or threw: the finally block decrements the counter.
RequestFinish(r, outcome) ==
  /\ EventLoopFree
  /\ req[r] = "running"
  /\ outcome \in {"returned", "threw"}
  /\ req' = [req EXCEPT ![r] = "idle"]
  /\ activeRequests' = activeRequests - 1
  /\ UNCHANGED <<state, hooks, forced, pidWritten, exitOnShutdown, ready,
                 adminTimer, startPc, tasks, running, now, exited,
                 exitCode, pidFile, viaRunServer, status, cliVars, ivVars, uiVars>>

\* POST /admin/shutdown, behind the middleware: 503 when not ready, 403 when
\* the Host header is not a loopback name, else setReadiness(false), a timer
\* that exits the process, and the acknowledgement.  The address the request
\* comes from is an input the handler does not read.  The handler has no
\* await: the counter is incremented and decremented in the same segment.
AdminShutdown(hostIsLoopback, fromLoopback) ==
  /\ EventLoopFree
  /\ Listening
  /\ IF ~ready
     THEN /\ status' = StatusUnavailable
          /\ UNCHANGED <<ready, adminTimer>>
     ELSE IF ~hostIsLoopback
          THEN /\ status' = StatusForbidden
               /\ UNCHANGED <<ready, adminTimer>>
          ELSE /\ ready' = FALSE
               /\ adminTimer' = TRUE
               /\ status' = StatusOk
  /\ UNCHANGED <<state, hooks, forced, pidWritten, exitOnShutdown,
                 activeRequests, req, startPc, tasks, running, now,
                 exited, exitCode, pidFile, viaRunServer, cliVars, ivVars, uiVars>>

\* setTimeout(() => process.exit(0), 100) of the admin endpoint fires.
AdminExit ==
  /\ EventLoopFree
  /\ adminTimer
  /\ adminTimer' = FALSE
  /\ ProcessExit(ExitClean)
  /\ UNCHANGED <<state, hooks, forced, pidWritten, exitOnShutdown, ready,
                 activeRequests, req, startPc, tasks, running, now,
                 viaRunServer, status, cliVars, ivVars, uiVars>>

\* ---- time

\* Only beginShutdown() reads the clock: time matters while a call has its
\* deadline or the end of its sleep ahead.
ClockRead ==
  \E t \in TaskIds : /\ tasks[t].kind = "shutdown"
                     /\ tasks[t].pc \notin {"gate", "forceInvoke", "forceAwait", "done"}
                     /\ now < tasks[t].deadline

Tick ==
  /\ EventLoopFree
  /\ ClockRead
  /\ now < MaxTime
  /\ now' = now + 1
  /\ UNCHANGED <<state, hooks, forced, pidWritten, exitOnShutdown, ready,
                 activeRequests, req, adminTimer, startPc, tasks,
                 running, exited, exitCode, pidFile, viaRunServer, status, cliVars, ivVars, uiVars>>

\* ---- specification

TaskStep(t) ==
  \/ CloseGate(t)
  \/ InvokeHooks(t)
  \/ DrainLoop(t)
  \/ Wake(t)
  \/ HooksSettled(t)
  \/ AfterLoop(t)
  \/ CleanEnd(t)
  \/ ForceInvoke(t)
  \/ ForceEnd(t)

Next ==
  \/ \E k \in HookKinds : RegisterHook(k)
  \/ StartCall
  \/ \E c \in BOOLEAN : StartFnResolve(c)
  \/ StartFnReject
  \/ \E ok \in BOOLEAN : WritePidSettled(ok)
  \/ CallBeginShutdown
  \/ Fatal
  \/ Signal
  \/ \E t \in TaskIds : TaskStep(t)
  \/ \E t \in TaskIds : \E i \in 1..Len(hooks) : HookSettle(t, i)
  \/ \E r \in ReqIds : RequestArrive(r)
  \/ \E r \in ReqIds : \E o \in {"returned", "threw"} : RequestFinish(r, o)
  \/ \E h \in BOOLEAN : \E a \in BOOLEAN : AdminShutdown(h, a)
  \/ AdminExit
  \/ Tick

Spec == Init /\ [][Next]_vars

\* The drain of a run in which no request arrives and the admin endpoint is
\* not called, with the scheduling the event loop guarantees: a call that can
\* go on does, a timer that is due fires, a promise that settles is settled.
\* With no request the drain loop never sleeps.
QuietStep(t) ==
  \/ CloseGate(t)
  \/ InvokeHooks(t)
  \/ DrainLoop(t)
  \/ HooksSettled(t)
  \/ AfterLoop(t)
  \/ CleanEnd(t)
  \/ ForceInvoke(t)
  \/ ForceEnd(t)

NextQuiet ==
  \/ \E k \in HookKinds : RegisterHook(k)
  \/ StartCall
  \/ \E c \in BOOLEAN : StartFnResolve(c)
  \/ StartFnReject
  \/ \E ok \in BOOLEAN : WritePidSettled(ok)
  \/ CallBeginShutdown
  \/ Fatal
  \/ Signal
  \/ \E t \in TaskIds : QuietStep(t)
  \/ \E t \in TaskIds : \E i \in 1..Len(hooks) : HookSettle(t, i)
  \/ Tick

FairSpec ==
  /\ Init
  /\ [][NextQuiet]_vars
  /\ \A t \in TaskIds : WF_vars(QuietStep(t))
  /\ WF_vars(\E t \in TaskIds : \E i \in 1..Len(hooks) : HookSettle(t, i))
  /\ WF_vars(Tick)

\* ---- the detached child: writePid() and the end of the process

CliFrame == UNCHANGED <<coreVars, ivVars, uiVars>>

\* The processes that exist.
Alive == {d \in DaemonPids : daemons[d].pc \notin {"none", "dead"}}

\* start() of the child calls writePid(process.pid); mkdir.
WritePidBegin(d) ==
  /\ daemons[d].pc = "spawned"
  /\ daemons' = [daemons EXCEPT ![d].pc = "cleanup"]
  /\ UNCHANGED <<record, tmp, cli>>
  /\ CliFrame

\* Lines 29-43: every temporary file in the directory is unlinked, whichever
\* process it belongs to.
WritePidCleanup(d) ==
  /\ daemons[d].pc = "cleanup"
  /\ tmp' = [e \in DaemonPids |-> NoFile]
  /\ daemons' = [daemons EXCEPT ![d].pc = "open"]
  /\ UNCHANGED <<record, cli>>
  /\ CliFrame

\* Lines 46-50, fs.writeFile(tmp, String(pid)): the file is created empty, or
\* the call fails and writePid() throws.
WriteTmpOpen(d, ok) ==
  /\ daemons[d].pc = "open"
  /\ IF ok
     THEN /\ tmp' = [tmp EXCEPT ![d] = <<>>]
          /\ daemons' = [daemons EXCEPT ![d].pc = "data"]
     ELSE /\ daemons' = [daemons EXCEPT ![d].pc = "running"]
          /\ UNCHANGED tmp
  /\ UNCHANGED <<record, cli>>
  /\ CliFrame

\* fs.writeFile goes on: the digits reach the file (if it was unlinked
\* meanwhile they go to a file that has no name any more).
WriteTmpData(d) ==
  /\ daemons[d].pc = "data"
  /\ tmp' = [tmp EXCEPT ![d] = IF tmp[d] = NoFile THEN NoFile ELSE String(d)]
  /\ daemons' = [daemons EXCEPT ![d].pc = "rename", ![d].retries = Retries]
  /\ UNCHANGED <<record, cli>>
  /\ CliFrame

\* (mutant) the digits are written into PID_PATH itself, no rename.
RenameInPlace(d, ok) ==
  /\ daemons[d].pc = "rename"
  /\ IF record # <<>>
     THEN /\ record' = <<>>
          /\ UNCHANGED daemons
     ELSE /\ record' = String(d)
          /\ daemons' = [daemons EXCEPT ![d].pc = "running", ![d].wrote = TRUE]
  /\ UNCHANGED <<tmp, cli>>
  /\ CliFrame

\* (mutant) the loop goes on until the rename succeeds.
RenameForever(d, ok) ==
  /\ daemons[d].pc = "rename"
  /\ IF ok /\ tmp[d] # NoFile
     THEN /\ record' = tmp[d]
          /\ tmp' = [tmp EXCEPT ![d] = NoFile]
          /\ daemons' = [daemons EXCEPT ![d].pc = "running", ![d].wrote = TRUE]
     ELSE /\ daemons' = [daemons EXCEPT ![d].pc = "delay",
                                        ![d].retries = @ - 1]
          /\ UNCHANGED <<record, tmp>>
  /\ UNCHANGED cli
  /\ CliFrame

\* Lines 53-66, one pass of the loop: fs.rename(tmp, PID_PATH) succeeds and
\* writePid() returns, or it fails (it must when the temporary file is gone)
\* and one retry is used up; with none left writePid() throws.
Rename(d, ok) ==
  /\ daemons[d].pc = "rename"
  /\ IF ok /\ tmp[d] # NoFile
     THEN /\ record' = tmp[d]
          /\ tmp' = [tmp EXCEPT ![d] = NoFile]
          /\ daemons' = [daemons EXCEPT ![d].pc = "running", ![d].wrote = TRUE]
     ELSE /\ daemons' = [daemons EXCEPT
                           ![d].pc = IF daemons[d].retries - 1 = 0
                                     THEN "running" ELSE "delay",
                           ![d].retries = @ - 1]
          /\ UNCHANGED <<record, tmp>>
  /\ UNCHANGED cli
  /\ CliFrame

\* Line 64: the delay before the next attempt is over.
RenameRetry(d) ==
  /\ daemons[d].pc = "delay"
  /\ daemons' = [daemons EXCEPT ![d].pc = "rename"]
  /\ UNCHANGED <<record, tmp, cli>>
  /\ CliFrame

\* removePid(): fs.unlink(PID_PATH), errors ignored.
removePid(content) == NoFile

\* The child shuts down on a signal: the hook registered by start() after a
\* successful write removes PID_PATH, and the process exits.
DaemonShutdown(d) ==
  /\ d \in Alive
  /\ record' = IF daemons[d].wrote THEN removePid(record) ELSE record
  /\ daemons' = [daemons EXCEPT ![d].pc = "dead"]
  /\ UNCHANGED <<tmp, cli>>
  /\ CliFrame

\* The child dies without running anything (a crash, SIGKILL, power loss).
DaemonDie(d) ==
  /\ d \in Alive
  /\ daemons' = [daemons EXCEPT ![d].pc = "dead"]
  /\ UNCHANGED <<record, tmp, cli>>
  /\ CliFrame

\* ---- copilot-proxy.ts: the status, stop and start commands

\* isProcessAlive(pid): process.kill(pid, 0) does not throw.  A negative
\* number names the process group led by that process.
isProcessAlive(v) ==
  LET n == v.n IN (IF n < 0 THEN 0 - n ELSE n) \in Alive

Commands == {"status", "stop", "start"}

\* A command is run.
CliBegin(c, cmd) ==
  /\ cli[c].cmd = "none"
  /\ \A b \in CliIds : b < c => cli[b].cmd # "none"
  /\ cli' = [cli EXCEPT ![c] = [NoCli EXCEPT !.cmd = cmd, !.pc = "read"]]
  /\ UNCHANGED <<record, tmp, daemons>>
  /\ CliFrame

\* const pid = await readPid(); if (!pid): status and stop report "not
\* running", start goes on to spawn.
CliRead(c) ==
  /\ cli[c].pc = "read"
  /\ LET pid == readPid(record) IN
     cli' = [cli EXCEPT
               ![c].pid = pid,
               ![c].pc = IF ~Not(pid) THEN "alive"
                         ELSE IF cli[c].cmd = "start" THEN "spawn" ELSE "done",
               ![c].out = IF Not(pid) /\ cli[c].cmd # "start"
                          THEN "notRunning" ELSE "none"]
  /\ UNCHANGED <<record, tmp, daemons>>
  /\ CliFrame

\* (mutant) the recorded PID is taken as alive without asking.
CliAliveUnchecked(c) ==
  /\ cli[c].pc = "alive"
  /\ cli' = [cli EXCEPT
               ![c].pc = IF cli[c].cmd = "stop" THEN "term" ELSE "done",
               ![c].out = IF cli[c].cmd = "status" THEN "running"
                          ELSE IF cli[c].cmd = "start" THEN "alreadyRunning"
                          ELSE "none"]
  /\ UNCHANGED <<record, tmp, daemons>>
  /\ CliFrame

\* const alive = await isProcessAlive(pid): a dead process leads to
\* removePid(); a live one is reported (status, start) or stopped (stop).
CliAlive(c) ==
  /\ cli[c].pc = "alive"
  /\ IF isProcessAlive(cli[c].pid)
     THEN cli' = [cli EXCEPT
                    ![c].pc = IF cli[c].cmd = "stop" THEN "term" ELSE "done",
                    ![c].out = IF cli[c].cmd = "status" THEN "running"
                               ELSE IF cli[c].cmd = "start"
                                    THEN "alreadyRunning"
                               ELSE "none"]
     ELSE cli' = [cli EXCEPT ![c].pc = "remove"]
  /\ UNCHANGED <<record, tmp, daemons>>
  /\ CliFrame

\* await removePid() for a stale record.
CliRemove(c) ==
  /\ cli[c].pc = "remove"
  /\ record' = removePid(record)
  /\ cli' = [cli EXCEPT
               ![c].pc = IF cli[c].cmd = "start" THEN "spawn" ELSE "done",
               ![c].out = IF cli[c].cmd = "start" THEN "none"
                          ELSE "notRunning"]
  /\ UNCHANGED <<tmp, daemons>>
  /\ CliFrame

\* stopCommand, line 142: process.kill(pid, "SIGTERM"); what the process
\* does with the signal is its own step.
CliTerm(c) ==
  /\ cli[c].pc = "term"
  /\ cli' = [cli EXCEPT ![c].pc = "poll0"]
  /\ UNCHANGED <<record, tmp, daemons>>
  /\ CliFrame

\* The values of Date.now() - start the model lets stopCommand read: none
\* yet, one sleep, the end of its wait, the end of the daemon's deadline.
ElapsedSamples == {0, StopPollMs, StopWaitMs, DaemonShutdownTimeoutMs}

\* Lines 149-158, one evaluation of the loop, elapsed being Date.now() - start
\* (0 at the first evaluation, at least one sleep more at each later one):
\* past the 10 s the loop ends; else a process found dead leads to
\* removePid(), a live one to a sleep.
CliPoll(c, elapsed) ==
  /\ cli[c].pc \in {"poll0", "poll"}
  /\ IF cli[c].pc = "poll0" THEN elapsed = 0
     ELSE elapsed >= cli[c].waited + StopPollMs
  /\ cli' = [cli EXCEPT
               ![c].waited = elapsed,
               ![c].pc = IF ~(elapsed < StopWaitMs) THEN "kill"
                         ELSE IF isProcessAlive(cli[c].pid) THEN "poll"
                         ELSE "removeStopped"]
  /\ UNCHANGED <<record, tmp, daemons>>
  /\ CliFrame

\* Lines 161-177: SIGKILL to the process group, else to the process; when
\* both calls throw (no such process) nothing is removed.
CliKill(c) ==
  /\ cli[c].pc = "kill"
  /\ LET n == cli[c].pid.n
         d == IF n < 0 THEN 0 - n ELSE n
     IN IF d \in Alive
        THEN /\ daemons' = [daemons EXCEPT ![d].pc = "dead"]
             /\ cli' = [cli EXCEPT ![c].pc = "removeKilled"]
        ELSE /\ cli' = [cli EXCEPT ![c].pc = "done", ![c].out = "killFailed"]
             /\ UNCHANGED daemons
  /\ UNCHANGED <<record, tmp>>
  /\ CliFrame

\* Lines 154 and 174: removePid() after the process was seen dead or killed.
CliRemoveAfter(c) ==
  /\ cli[c].pc \in {"removeStopped", "removeKilled"}
  /\ record' = removePid(record)
  /\ cli' = [cli EXCEPT
               ![c].pc = "done",
               ![c].out = IF cli[c].pc = "removeKilled" THEN "killed"
                          ELSE "stopped"]
  /\ UNCHANGED <<tmp, daemons>>
  /\ CliFrame

\* startCommand, lines 198-253: without a token the command exits; else the
\* child is spawned and gets the next PID.
CliSpawn(c, tokenOk) ==
  /\ cli[c].pc = "spawn"
  /\ IF tokenOk
     THEN /\ \E d \in DaemonPids : daemons[d].pc = "none"
          /\ LET d == CHOOSE e \in DaemonPids :
                        /\ daemons[e].pc = "none"
                        /\ \A f \in DaemonPids :
                             daemons[f].pc = "none" => e <= f
             IN daemons' = [daemons EXCEPT ![d].pc = "spawned"]
          /\ cli' = [cli EXCEPT ![c].pc = "wait"]
     ELSE /\ cli' = [cli EXCEPT ![c].pc = "done", ![c].out = "failed"]
          /\ UNCHANGED daemons
  /\ UNCHANGED <<record, tmp>>
  /\ CliFrame

\* Lines 256-265, after SERVER_START_TIMEOUT: the PID file is read again.
CliVerify(c) ==
  /\ cli[c].pc = "wait"
  /\ LET newPid == readPid(record) IN
     cli' = [cli EXCEPT
               ![c].pc = "done",
               ![c].pid = newPid,
               ![c].out = IF ~Not(newPid) /\ isProcessAlive(newPid)
                          THEN "started" ELSE "failed"]
  /\ UNCHANGED <<record, tmp, daemons>>
  /\ CliFrame

\* ---- the PID file with its readers and writers

\* What may be in PID_PATH when the first command runs: nothing, the PID of a
\* process long gone, or content no writePid() produced.
InitialRecords ==
  {NoFile, String(StalePid), <<>>, <<" ", "\n">>, <<"a", "b">>,
   <<"1", "2", "a">>, <<"1", "2", "\n">>, <<"-", "7">>}

CliInit ==
  /\ CoreInit
  /\ IvIdle
  /\ UiIdle
  /\ record \in InitialRecords
  /\ tmp = [d \in DaemonPids |-> NoFile]
  /\ daemons = [d \in DaemonPids |-> NoDaemon]
  /\ cli = [c \in CliIds |-> NoCli]

CliNext ==
  \/ \E c \in CliIds : \E cmd \in Commands : CliBegin(c, cmd)
  \/ \E c \in CliIds : CliRead(c)
  \/ \E c \in CliIds : CliAlive(c)
  \/ \E c \in CliIds : CliRemove(c)
  \/ \E c \in CliIds : CliTerm(c)
  \/ \E c \in CliIds : \E elapsed \in ElapsedSamples : CliPoll(c, elapsed)
  \/ \E c \in CliIds : CliKill(c)
  \/ \E c \in CliIds : CliRemoveAfter(c)
  \/ \E c \in CliIds : \E tokenOk \in BOOLEAN : CliSpawn(c, tokenOk)
  \/ \E c \in CliIds : CliVerify(c)
  \/ \E d \in DaemonPids : WritePidBegin(d)
  \/ \E d \in DaemonPids : WritePidCleanup(d)
  \/ \E d \in DaemonPids : \E ok \in BOOLEAN : WriteTmpOpen(d, ok)
  \/ \E d \in DaemonPids : WriteTmpData(d)
  \/ \E d \in DaemonPids : \E ok \in BOOLEAN : Rename(d, ok)
  \/ \E d \in DaemonPids : RenameRetry(d)
  \/ \E d \in DaemonPids : DaemonShutdown(d)
  \/ \E d \in DaemonPids : DaemonDie(d)

CliSpec == CliInit /\ [][CliNext]_vars

\* ---- startResilientInterval (src/daemon/types.ts)

\* An option that was not given.
Undefined == <<>>

\* Numbers that are not integers are fractions <<numerator, denominator>>.
Min(a, b) == IF a <= b THEN a ELSE b
Max(a, b) == IF a >= b THEN a ELSE b

RECURSIVE Pow(_, _)
Pow(b, k) == IF k = 0 THEN 1 ELSE b * Pow(b, k - 1)

\* Math.round(a / b) for a >= 0, b > 0: the nearest integer, halves upwards.
Round(a, b) == (2 * a + b) \div (2 * b)

\* (mutant) no cap.
BackoffUncapped(k) ==
  Round(intervalMs * Pow(multiplier[1], k), Pow(multiplier[2], k))

\* Lines 57-60: Math.min(Math.round(intervalMs * Math.pow(multiplier, k)),
\* maxBackoff).
Backoff(k) ==
  Min(Round(intervalMs * Pow(multiplier[1], k), Pow(multiplier[2], k)),
      maxBackoff)

\* (mutant) scheduleNext without the test of stopped.
ScheduleNextUnguarded(delay) == <<ivNow + Max(0, delay)>>

\* scheduleNext(delay): nothing when stopped, else the pending timer is
\* replaced by one due after Math.max(0, delay).
ScheduleNext(delay) ==
  IF stopped THEN timer ELSE <<ivNow + Max(0, delay)>>

\* clearTimeout(timer) and setTimeout as the runtime sees them: the timer
\* the closure holds is dropped, a new one is due after Math.max(0, delay).
ClearTimeout == IF timer = NoTimer THEN timers ELSE timers \ {timer[1]}

SetTimeout(delay) ==
  IF stopped THEN timers ELSE ClearTimeout \cup {ivNow + Max(0, delay)}

IvFrame == UNCHANGED <<coreVars, cliVars, uiVars>>

\* (mutant) the task is run at once, then the loop is started.
StartImmediately(i, optMaxBackoffMs, optBackoffMultiplier) ==
  /\ ~ivStarted
  /\ ivStarted' = TRUE
  /\ intervalMs' = i
  /\ maxBackoff' = IF optMaxBackoffMs = Undefined THEN i * DefaultCapFactor
                   ELSE optMaxBackoffMs[1]
  /\ multiplier' = IF optBackoffMultiplier = Undefined
                   THEN <<DefaultMultiplier, 1>> ELSE optBackoffMultiplier
  /\ inFlight' = TRUE
  /\ active' = active + 1
  /\ runs' = runs + 1
  /\ UNCHANGED <<stopped, consecutiveFailures, ivNow, timer, timers>>
  /\ IvFrame

\* startResilientInterval(fn, intervalMs, opts): the locals, the two
\* defaults, and scheduleNext(intervalMs).
StartResilientInterval(i, optMaxBackoffMs, optBackoffMultiplier) ==
  /\ ~ivStarted
  /\ ivStarted' = TRUE
  /\ intervalMs' = i
  /\ maxBackoff' = IF optMaxBackoffMs = Undefined THEN i * DefaultCapFactor
                   ELSE optMaxBackoffMs[1]
  /\ multiplier' = IF optBackoffMultiplier = Undefined
                   THEN <<DefaultMultiplier, 1>> ELSE optBackoffMultiplier
  /\ timer' = <<ivNow + Max(0, i)>>
  /\ timers' = timers \cup {ivNow + Max(0, i)}
  /\ UNCHANGED <<stopped, consecutiveFailures, inFlight, ivNow, runs, active>>
  /\ IvFrame

\* (mutant) setInterval: the timer is set again when it fires, whether or
\* not the execution it starts has settled.
TimerFireRepeating ==
  /\ runs < MaxRuns
  /\ \E t \in timers :
       /\ ivNow >= t
       /\ timers' = (timers \ {t}) \cup {ivNow + intervalMs}
       /\ timer' = <<ivNow + intervalMs>>
  /\ IF stopped
     THEN UNCHANGED <<inFlight, runs, active>>
     ELSE inFlight' = TRUE /\ runs' = runs + 1 /\ active' = active + 1
  /\ UNCHANGED <<intervalMs, multiplier, maxBackoff, stopped,
                 consecutiveFailures, ivNow, ivStarted>>
  /\ IvFrame

\* A timer is due: the runtime drops it and calls runOnce(), which returns
\* when stopped and else calls fn().
TimerFire ==
  /\ runs < MaxRuns
  /\ \E t \in timers :
       /\ ivNow >= t
       /\ timers' = timers \ {t}
       /\ timer' = IF timer = <<t>> THEN NoTimer ELSE timer
  /\ IF stopped
     THEN UNCHANGED <<inFlight, runs, active>>
     ELSE inFlight' = TRUE /\ runs' = runs + 1 /\ active' = active + 1
  /\ UNCHANGED <<intervalMs, multiplier, maxBackoff, stopped,
                 consecutiveFailures, ivNow, ivStarted>>
  /\ IvFrame

\* (mutant) a success leaves the streak as it is.
FnSettleKeepStreak(ok) ==
  /\ active > 0
  /\ active' = active - 1
  /\ inFlight' = (active' > 0)
  /\ IF ok
     THEN /\ UNCHANGED consecutiveFailures
          /\ timer' = ScheduleNext(intervalMs)
          /\ timers' = SetTimeout(intervalMs)
     ELSE /\ consecutiveFailures' = consecutiveFailures + 1
          /\ timer' = ScheduleNext(Backoff(consecutiveFailures + 1))
          /\ timers' = SetTimeout(Backoff(consecutiveFailures + 1))
  /\ UNCHANGED <<intervalMs, multiplier, maxBackoff, stopped, ivNow, runs,
                 ivStarted>>
  /\ IvFrame

\* fn() settled.  Resolved: the streak is reset and the next run is due after
\* intervalMs.  Rejected: the streak grows and the next run is due after the
\* backoff.
FnSettle(ok) ==
  /\ active > 0
  /\ active' = active - 1
  /\ inFlight' = (active' > 0)
  /\ IF ok
     THEN /\ consecutiveFailures' = 0
          /\ timer' = ScheduleNext(intervalMs)
          /\ timers' = SetTimeout(intervalMs)
     ELSE /\ consecutiveFailures' = consecutiveFailures + 1
          /\ timer' = ScheduleNext(Backoff(consecutiveFailures + 1))
          /\ timers' = SetTimeout(Backoff(consecutiveFailures + 1))
  /\ UNCHANGED <<intervalMs, multiplier, maxBackoff, stopped, ivNow, runs,
                 ivStarted>>
  /\ IvFrame

\* (mutant) a second stop() throws.
StopOnce ==
  /\ ivStarted
  /\ ~stopped
  /\ stopped' = TRUE
  /\ timer' = NoTimer
  /\ timers' = ClearTimeout
  /\ UNCHANGED <<intervalMs, multiplier, maxBackoff, consecutiveFailures,
                 inFlight, ivNow, runs, ivStarted, active>>
  /\ IvFrame

\* handle.stop(): stopped = true, the pending timer is cleared.
Stop ==
  /\ ivStarted
  /\ stopped' = TRUE
  /\ timer' = NoTimer
  /\ timers' = ClearTimeout
  /\ UNCHANGED <<intervalMs, multiplier, maxBackoff, consecutiveFailures,
                 inFlight, ivNow, runs, ivStarted, active>>
  /\ IvFrame

IvTick ==
  /\ ivStarted
  /\ ivNow < MaxIvTime
  /\ ivNow' = ivNow + 1
  /\ UNCHANGED <<intervalMs, multiplier, maxBackoff, stopped, timer,
                 consecutiveFailures, inFlight, runs, ivStarted, timers,
                 active>>
  /\ IvFrame

\* The arguments of the model's calls.
Intervals == {1, 2}
MaxBackoffOptions == {Undefined, <<3>>}
MultiplierOptions == {Undefined, <<3, 2>>}

IvNext ==
  \/ \E i \in Intervals : \E m \in MaxBackoffOptions :
       \E b \in MultiplierOptions : StartResilientInterval(i, m, b)
  \/ TimerFire
  \/ \E ok \in BOOLEAN : FnSettle(ok)
  \/ Stop
  \/ IvTick

IntervalSpec == Init /\ [][IvNext]_vars

\* ---- computeInteractive, assertInteractiveOrThrow (lib/interactive.ts)

\* What process.stdin may be: absent, a stream whose isTTY is undefined,
\* false or true, or an object whose access throws.
StdinStates == {"absent", "undefined", "false", "true", "throws"}

InteractiveOptions ==
  [daemon : OptionValues, noInteractive : OptionValues,
   forceInteractive : OptionValues]

Truthy(v) == v = "true"

\* isTTY(): Boolean(process.stdin && process.stdin.isTTY), false when the
\* access throws.
isTTY(stdin) == Truthy(stdin)

\* (mutant) the daemon and no-interactive options are looked at first.
computeInteractiveForceLast(opts, stdin) ==
  IF Truthy(opts.daemon) \/ Truthy(opts.noInteractive) THEN FALSE
  ELSE IF Truthy(opts.forceInteractive) THEN TRUE
  ELSE isTTY(stdin)

\* computeInteractive(opts)
computeInteractive(opts, stdin) ==
  IF Truthy(opts.forceInteractive) THEN TRUE
  ELSE IF Truthy(opts.daemon) \/ Truthy(opts.noInteractive) THEN FALSE
  ELSE isTTY(stdin)

\* assertInteractiveOrThrow(opts, message) throws: TRUE or FALSE.
assertInteractiveOrThrow(opts, stdin) == ~computeInteractive(opts, stdin)

UiFrame == UNCHANGED <<coreVars, cliVars, ivVars>>

\* A call of computeInteractive.
CallComputeInteractive(opts, stdin) ==
  /\ uiCall' = "computeInteractive"
  /\ uiOpts' = opts
  /\ uiStdin' = stdin
  /\ uiResult' = computeInteractive(opts, stdin)
  /\ uiThrew' = FALSE
  /\ UiFrame

\* A call of assertInteractiveOrThrow; it returns nothing.
CallAssertInteractiveOrThrow(opts, stdin) ==
  /\ uiCall' = "assertInteractiveOrThrow"
  /\ uiOpts' = opts
  /\ uiStdin' = stdin
  /\ uiResult' = FALSE
  /\ uiThrew' = assertInteractiveOrThrow(opts, stdin)
  /\ UiFrame

UiNext ==
  \/ \E o \in InteractiveOptions : \E i \in StdinStates :
       CallComputeInteractive(o, i)
  \/ \E o \in InteractiveOptions : \E i \in StdinStates :
       CallAssertInteractiveOrThrow(o, i)

InteractiveSpec == Init /\ [][UiNext]_vars

\* ---- claims

LifecycleEdges ==
  {<<"init", "starting">>, <<"starting", "ready">>, <<"starting", "failed">>,
   <<"ready", "draining">>, <<"draining", "stopped">>,
   <<"draining", "failed">>}

\* C1: every change of the lifecycle state is one of the edges init->starting,
\* starting->ready, starting->failed, ready->draining, draining->stopped,
\* draining->failed.
C1_OnlyLifecycleEdges ==
  [][state' # state => <<state, state'>> \in LifecycleEdges]_vars

\* C2: in state stopped, beginShutdown (called directly, by a signal or by a
\* fatal error) and start() return or throw without starting a call, calling
\* a hook, or changing the state or the readiness flag.
C2_StoppedCallsChangeNothing ==
  [][(state = "stopped" /\ (CallBeginShutdown \/ Fatal \/ Signal \/ StartCall))
       => UNCHANGED <<state, ready, tasks, hooks, running, startPc, forced,
                      exited>>]_vars

C2_Witness ==
  /\ state = "stopped"
  /\ Len(hooks) > 0
  /\ ready
  /\ HasFreeSlot
  /\ ENABLED Signal
  /\ ENABLED StartCall

\* A beginShutdown() call past setReadiness(false) that has not ended.
Draining(t) ==
  /\ tasks[t].kind = "shutdown"
  /\ tasks[t].pc \notin {"gate", "done"}

\* C3: from the moment beginShutdown has closed the gate until the process
\* exits or the state is stopped, the readiness flag is false.
C3_GateStaysClosed ==
  ((\E t \in TaskIds : Draining(t)) /\ ~exited /\ state # "stopped") => ~ready

\* C4: a shutdown ends cleanly only with no active request and with every
\* hook promise of that call settled.
C4_CleanEndIsDrained ==
  [][\A t \in TaskIds :
       (tasks[t].out = "none" /\ tasks'[t].out = "clean")
         => (activeRequests = 0 /\ tasks[t].pend = {})]_vars

\* C5: a shutdown with a hook that never settles still ends, by forced
\* termination, once its deadline has passed.
C5_HangingHookStillEnds ==
  (\E t \in TaskIds : /\ Draining(t)
                      /\ \E i \in tasks[t].pend : hooks[i].kind = "hang")
    ~> (exited \/ state = "stopped")

\* C6: a beginShutdown() call that never read a zero counter never awaits the
\* hooks for a clean end and never ends cleanly; it polls only before its
\* deadline, leaves the loop for forceTerminate(), and ends with exit code 2,
\* or with state stopped when the controller must not exit.
C6_BusyDrainEndsForced ==
  [][\A t \in TaskIds :
       (tasks'[t].kind = "shutdown" /\ ~tasks'[t].sawZero)
         => /\ tasks'[t].out # "clean"
            /\ tasks'[t].pc \notin {"awaitHooks", "awaitClean"}
            /\ tasks'[t].pc = "sleep"
                 => tasks'[t].wake - PollInterval < tasks'[t].deadline
            /\ (tasks[t].pc = "after" /\ tasks'[t].pc # "after")
                 => tasks'[t].pc = "forceInvoke"
            /\ (tasks[t].out = "none" /\ tasks'[t].out # "none")
                 => /\ tasks'[t].out = "forced"
                    /\ IF exitOnShutdown
                       THEN exited' /\ exitCode' = ExitForced
                       ELSE state' = "stopped" /\ ~exited']_vars

C6_Witness ==
  \E t \in TaskIds :
    /\ tasks[t].kind = "shutdown"
    /\ ~tasks[t].sawZero
    /\ tasks[t].out = "forced"
    /\ now >= tasks[t].deadline
    /\ ~forced
    /\ activeRequests > 0
    /\ exited /\ exitCode = ExitForced

\* C7: a second signal while draining makes the process exit with code 2.
C7_SecondSignalExits ==
  (exitOnShutdown /\ \E t \in TaskIds : tasks[t].kind = "signal")
    ~> (exited /\ exitCode = ExitForced)

\* C8: in every beginShutdown() call the readiness flag is false when the
\* hooks are called and when the drain loop is entered.
C8_GateClosedFirst ==
  \A t \in TaskIds : tasks[t].pc \in {"hooks", "enterLoop"} => ~ready

C8_Witness ==
  \E t \in TaskIds :
    /\ tasks[t].pc = "enterLoop"
    /\ tasks[t].pend # {}
    /\ activeRequests > 0
    /\ state = "draining"
    /\ startPc = "done"

\* C9: the process exits with code 0 only after a clean drain, with code 2
\* exactly when the shutdown was forced, with code 1 only when start() failed.
C9_ExitCodes ==
  exited =>
    /\ exitCode = ExitClean => \E t \in TaskIds : tasks[t].out = "clean"
    /\ exitCode = ExitForced <=> \E t \in TaskIds : tasks[t].out = "forced"
    /\ exitCode = ExitFailed => state = "failed"

\* C10: the active-request counter is the number of admitted requests whose
\* handler has not completed.
C10_CounterIsInFlight ==
  activeRequests = Cardinality({r \in ReqIds : req[r] = "running"})

C10_Witness ==
  /\ activeRequests = 1
  /\ req[1] = "idle"
  /\ req[2] = "running"
  /\ ~ready

\* C11: a request that reaches the middleware while the readiness flag is
\* false is answered 503; the counter is not incremented and no handler
\* behind the middleware runs (no request is in next(), the admin endpoint
\* sets no timer and does not touch the flag).
C11_NotReadyRejects ==
  [][(~ready /\ (\/ \E r \in ReqIds : RequestArrive(r)
                 \/ \E h \in BOOLEAN : \E a \in BOOLEAN : AdminShutdown(h, a)))
       => /\ status' = StatusUnavailable
          /\ UNCHANGED <<activeRequests, req, adminTimer, ready>>]_vars

C11_Witness ==
  /\ ~ready
  /\ status = StatusUnavailable
  /\ activeRequests = 1
  /\ req[1] = "running"
  /\ state = "draining"
  /\ ~adminTimer

\* C12: start() called in a state other than init throws: the start function
\* is not called (no start() call begins to await it), and the state, the
\* readiness flag, the PID file and the hooks are left as they are.
C12_StartOnlyFromInit ==
  [][(state # "init" /\ StartCall)
       => UNCHANGED <<state, startPc, running, ready, pidWritten, pidFile,
                      hooks>>]_vars

C12_Witness ==
  /\ state = "ready"
  /\ startPc = "done"
  /\ pidFile
  /\ ready
  /\ ENABLED StartCall

\* C13: when the start function rejects, start() sets the state to failed
\* and throws (runServer then exits with code 1); the start function is not
\* called again, and on that path start() neither sets the readiness flag nor
\* writes the PID file.
C13_StartFailureIsFinal ==
  [][/\ StartFnReject
          => /\ state' = "failed"
             /\ startPc' = "threw"
             /\ viaRunServer => (exited' /\ exitCode' = ExitFailed)
             /\ UNCHANGED <<ready, pidWritten, hooks>>
             /\ ~pidFile'
     /\ startPc = "threw"
          => /\ startPc' = "threw"
             /\ ready' => ready
             /\ ~pidWritten' /\ ~pidFile']_vars

C13_Witness ==
  /\ startPc = "threw"
  /\ state = "draining"
  /\ ~ready
  /\ \E t \in TaskIds : tasks[t].out = "none" /\ tasks[t].pc = "sleep"

\* C14: in a graceful drain a hook that throws or rejects stops nothing: the
\* promise of every hook that returned one is awaited, whatever the hooks
\* before it did, a clean end comes only when all of them are settled, and
\* when no hook hangs the shutdown ends.
C14_HookFailureContained ==
  /\ [][\A t \in TaskIds :
          /\ (tasks[t].pc = "hooks" /\ tasks'[t].pc = "enterLoop")
               => tasks'[t].pend
                    = {i \in 1..Len(hooks) : hooks[i].kind \in AsyncKinds}
          /\ (tasks[t].out = "none" /\ tasks'[t].out = "clean")
               => tasks[t].pend = {}]_vars
  /\ [](\A i \in 1..Len(hooks) : hooks[i].kind # "hang")
       => (((\E t \in TaskIds : Draining(t))
             /\ (\E i \in 1..Len(hooks) : hooks[i].kind = "throw"))
            ~> (exited \/ state = "stopped"))

C14_Witness ==
  /\ Len(hooks) = 2
  /\ hooks[1].kind = "throw"
  /\ ~hooks[2].late
  /\ pidWritten /\ ~pidFile
  /\ \E t \in TaskIds : tasks[t].out = "clean"
  /\ exited /\ exitCode = ExitClean

\* C15: a hook passed to registerHook after draining has begun is never
\* called, neither by beginShutdown nor by forceTerminate.
C15_LateHookNeverInvoked ==
  [][\A t \in TaskIds :
       /\ (tasks[t].pc = "hooks" /\ tasks'[t].pc = "enterLoop")
            => \A i \in 1..Len(hooks) : ~(hooks[i].late /\ ~hooks[i].rm)
       /\ (tasks[t].pc = "forceInvoke" /\ tasks'[t].pc = "forceAwait")
            => \A i \in ForceInvoked(hooks) :
                 ~(hooks[i].late /\ ~hooks[i].rm)]_vars

\* C16: an accepted POST /admin/shutdown is acknowledged at once and starts a
\* beginShutdown() call (the state becomes draining), and the process exits
\* through that call, after the hooks were called and the drain ended.
C16_AdminTriggersBeginShutdown ==
  [][/\ \A h \in BOOLEAN : \A a \in BOOLEAN :
          (ready /\ h /\ AdminShutdown(h, a))
            => /\ status' = StatusOk
               /\ state' = "draining"
               /\ \E t \in TaskIds :
                    tasks[t].kind = "none" /\ tasks'[t].kind = "shutdown"
     /\ (exited' /\ ~exited /\ status = StatusOk)
          => \E t \in TaskIds : tasks'[t].out # "none"]_vars

\* C17: a POST /admin/shutdown that does not come from a loopback address is
\* answered 403, whatever its Host header, and neither closes the readiness
\* gate nor sets the timer that exits the process.
C17_AdminOnlyFromLoopback ==
  [][\A h \in BOOLEAN :
       (ready /\ AdminShutdown(h, FALSE))
         => /\ status' = StatusForbidden
            /\ UNCHANGED <<ready, adminTimer>>]_vars

\* C18: the PID file is written only by a process whose environment marks
\* it as the detached child, only by start() after it has set the state to
\* ready, and at most once; a start() that has not got that far, or that
\* failed, has written nothing.
C18_PidWrittenOnceByChild ==
  [][/\ \A c \in BOOLEAN :
          (StartFnResolve(c) /\ startPc' = "awaitWritePid")
            => (c /\ state' = "ready")
     /\ (pidFile' /\ ~pidFile)
          => (startPc = "awaitWritePid" /\ startPc' = "done" /\ ~pidWritten)
     /\ (pidWritten' # pidWritten)
          => (pidWritten' /\ pidFile' /\ ~pidFile)
     /\ startPc \in {"idle", "awaitStartFn", "threw"}
          => (~pidFile /\ ~pidWritten)]_vars

C18_Witness ==
  /\ pidFile /\ pidWritten
  /\ startPc = "done"
  /\ state = "ready"
  /\ ready
  /\ Len(hooks) = 2
  /\ hooks[2].rm

\* C19: when writePid() fails, start() returns without throwing and leaves
\* the state and the readiness flag as it set them: ready and open, unless a
\* shutdown has begun meanwhile.
C19_PidWriteFailureNotFatal ==
  [][WritePidSettled(FALSE)
       => /\ startPc' = "done"
          /\ UNCHANGED <<state, ready, exited, pidWritten, pidFile, hooks>>
          /\ (~DrainingBegun /\ ~adminTimer) => (state' = "ready" /\ ready')]_vars

C19_Witness ==
  /\ startPc = "awaitWritePid"
  /\ ENABLED WritePidSettled(FALSE)
  /\ state = "ready"
  /\ ready
  /\ ~DrainingBegun
  /\ activeRequests > 0

\* C20: when a daemon that has written its PID file ends a shutdown cleanly,
\* the PID file is gone.
C20_CleanShutdownRemovesPid ==
  [][\A t \in TaskIds :
       (tasks[t].out = "none" /\ tasks'[t].out = "clean" /\ pidWritten)
         => ~pidFile']_vars

\* C21: a command that finds the process of the PID it read dead goes on to
\* removePid() and nowhere else; after it the record is gone, status and
\* stop are done with "not running" (stop has sent no signal), and start goes
\* on to spawn; "running" and "already running" are reported only for a PID
\* whose process was found alive.
C21_StaleRecordReclaimed ==
  [][\A c \in CliIds :
       /\ (cli[c].pc = "alive" /\ cli'[c].pc # "alive"
             /\ ~isProcessAlive(cli[c].pid))
            => (cli'[c].pc = "remove" /\ cli'[c].out = "none")
       /\ (cli[c].pc = "remove" /\ cli'[c].pc # "remove")
            => /\ record' = NoFile
               /\ IF cli[c].cmd = "start"
                  THEN cli'[c].pc = "spawn" /\ cli'[c].out = "none"
                  ELSE cli'[c].pc = "done" /\ cli'[c].out = "notRunning"
       /\ (cli'[c].out # cli[c].out
             /\ cli'[c].out \in {"running", "alreadyRunning"})
            => (cli[c].pc = "alive" /\ isProcessAlive(cli[c].pid))
       /\ cli'[c].pc \in {"term", "kill"}
            => cli[c].pc \notin {"read", "remove"}]_vars

C21_Witness ==
  \E c \in CliIds :
    /\ cli[c].cmd = "start"
    /\ cli[c].pc = "wait"
    /\ cli[c].pid = Num(StalePid)
    /\ record = NoFile
    /\ \E b \in CliIds : /\ cli[b].cmd = "stop"
                         /\ cli[b].pid = Num(StalePid)
                         /\ cli[b].out = "notRunning"

\* C22: when a command removes the PID file, the file does not hold the PID
\* of a live process.
C22_CliNeverDeletesLiveRecord ==
  [][\A c \in CliIds :
       (/\ cli[c].pc \in {"remove", "removeStopped", "removeKilled"}
        /\ cli'[c].pc # cli[c].pc
        /\ record # NoFile
        /\ record' = NoFile
        /\ ~Not(readPid(record)))
         => ~isProcessAlive(readPid(record))]_vars

\* C23: PID_PATH changes only by being removed or by receiving, in one step,
\* the complete digits of the writer's PID: whatever a concurrent readPid()
\* finds is the old content or the new PID, never a part of it.
C23_RecordReplacedWhole ==
  [][record' # record
       => \/ record' = NoFile
          \/ \E d \in DaemonPids :
               /\ daemons[d].pc = "rename"
               /\ record' = String(d)
               /\ readPid(record') = Num(d)]_vars

C23_Witness ==
  /\ record = NoFile
  /\ \E d \in DaemonPids : daemons[d].pc = "data" /\ tmp[d] = <<>>
  /\ \E c \in CliIds :
       /\ cli[c].cmd = "start" /\ cli[c].pc = "done"
       /\ cli[c].pid = Null /\ cli[c].out = "failed"
       /\ \A b \in CliIds \ {c} : cli[b].cmd = "none"

\* C24: readPid() of what writePid(p) wrote is p, for every PID p and
\* whatever the file held before; after removePid() readPid() is null, and
\* removePid() of an absent file leaves it absent without an error.
C24_WriteReadRoundTrip ==
  [][/\ \A p \in 1..MaxPid :
          /\ readPid(String(p)) = Num(p)
          /\ readPid(removePid(String(p))) = Null
     /\ removePid(NoFile) = NoFile
     /\ \A d \in DaemonPids :
          (daemons'[d].wrote /\ ~daemons[d].wrote)
            => readPid(record') = Num(d)
     /\ (record' # record /\ ~\E d \in DaemonPids : daemons'[d] # daemons[d])
          => readPid(record') = Null]_vars

C24_Witness ==
  /\ record = String(305)
  /\ daemons[305].wrote
  /\ daemons[12].wrote
  /\ \E c \in CliIds : cli[c].out = "started" /\ cli[c].pid = Num(305)

\* C25: writePid() tries the rename at most three times: an attempt is made
\* only with a retry left; one that succeeds ends the writing for good; one
\* that fails uses up a retry and leaves PID_PATH as it was, and the third
\* failure makes writePid() throw.
C25_RenameAtMostThrice ==
  [][\A d \in DaemonPids :
       /\ daemons[d].pc \in {"rename", "delay"}
            => daemons[d].retries \in 1..Retries
       /\ (daemons[d].pc = "rename" /\ daemons'[d] # daemons[d])
            => IF daemons'[d].wrote
               THEN /\ daemons'[d].pc = "running"
                    /\ record' = String(d)
                    /\ daemons'[d].retries = daemons[d].retries
               ELSE /\ daemons'[d].pc = "dead"
                      \/ /\ daemons'[d].retries = daemons[d].retries - 1
                         /\ record' = record
                         /\ daemons'[d].pc =
                              IF daemons[d].retries = 1
                              THEN "running" ELSE "delay"
       /\ daemons[d].pc \in {"running", "dead"}
            => daemons'[d].pc \in {"running", "dead"}]_vars

C25_Witness ==
  \E d \in DaemonPids :
    /\ daemons[d].pc = "running"
    /\ ~daemons[d].wrote
    /\ daemons[d].retries = 0
    /\ tmp[d] = String(d)
    /\ record # NoFile

\* C26: readPid() is null when the file is absent or does not hold a PID;
\* what it returns otherwise is the PID the file holds (its digits, a
\* positive number).
C26_ReadOnlyReturnsPids ==
  /\ record = NoFile => readPid(record) = Null
  /\ readPid(record) # Null
       => /\ AllDigits(Trim(record))
          /\ readPid(record).kind = "number"
          /\ readPid(record).n > 0

\* C27: once stop() has been called no execution of the task begins, and an
\* execution in flight at that moment ends without setting a timer,
\* whether it succeeds or fails.
C27_NoRunAfterStop ==
  [][stopped => (stopped' /\ runs' = runs /\ ~(inFlight' /\ ~inFlight)
                 /\ timer = NoTimer /\ timer' = NoTimer)]_vars

C27_Witness ==
  /\ stopped
  /\ inFlight
  /\ runs >= 2
  /\ consecutiveFailures >= 1
  /\ ENABLED FnSettle(FALSE)

\* C28 (as amended): after the k-th consecutive failure (k >= 1), while not
\* stopped, the next execution is scheduled after
\* min(round(base * multiplier^k), maxBackoff), the product rounded to the
\* nearest integer before the cap is applied; the multiplier defaults to 2
\* and maxBackoff to 10 * base; the delay never exceeds maxBackoff and a
\* timer is set after every failure.
C28_BackoffRoundedAndCapped ==
  [][/\ \A i \in Intervals, m \in MaxBackoffOptions, b \in MultiplierOptions :
          StartResilientInterval(i, m, b) =>
            /\ (m = Undefined => maxBackoff' = 10 * i)
            /\ (b = Undefined => multiplier' = <<2, 1>>)
     /\ (inFlight /\ ~inFlight' /\ ~stopped
           /\ consecutiveFailures' = consecutiveFailures + 1) =>
          LET k == consecutiveFailures'
              num == intervalMs * Pow(multiplier[1], k)
              den == Pow(multiplier[2], k)
              rounded == (2 * num + den) \div (2 * den)
          IN /\ k >= 1
             /\ timer' # NoTimer
             /\ timer'[1] - ivNow =
                  (IF rounded <= maxBackoff THEN rounded ELSE maxBackoff)
             /\ timer'[1] - ivNow <= maxBackoff]_vars

\* The fourth failure in a row with base 1 and the defaults: 16 is capped
\* to 10.
C28_Witness ==
  /\ intervalMs = 1
  /\ multiplier = <<2, 1>>
  /\ maxBackoff = 10
  /\ consecutiveFailures = 4
  /\ ~inFlight
  /\ ~stopped
  /\ timer = <<ivNow + 10>>

\* C28 as stated: the delay is min(base * multiplier^k, maxBackoff) with no
\* rounding (compared as fractions over multiplier's denominator).
C28_BackoffExact ==
  [][(inFlight /\ ~inFlight' /\ ~stopped
        /\ consecutiveFailures' = consecutiveFailures + 1) =>
       LET k == consecutiveFailures'
           num == intervalMs * Pow(multiplier[1], k)
           den == Pow(multiplier[2], k)
       IN /\ timer' # NoTimer
          /\ (timer'[1] - ivNow) * den =
               (IF num <= maxBackoff * den THEN num ELSE maxBackoff * den)]_vars

\* C29: an execution that succeeds leaves the streak at 0 and, unless
\* stopped, the next execution due after exactly the base interval, whatever
\* the streak was; a failure of the execution that follows a success is
\* scheduled as a first failure (streak 1).
C29_SuccessResets ==
  [][/\ (inFlight /\ ~inFlight'
           /\ consecutiveFailures' # consecutiveFailures + 1) =>
          /\ consecutiveFailures' = 0
          /\ (~stopped => timer' = <<ivNow + intervalMs>>)
     /\ (inFlight /\ ~inFlight' /\ runs >= 2 /\ consecutiveFailures = 0
           /\ consecutiveFailures' # 0) =>
          /\ consecutiveFailures' = 1
          /\ (~stopped =>
                LET num == intervalMs * multiplier[1]
                    den == multiplier[2]
                    first == (2 * num + den) \div (2 * den)
                IN timer' = <<ivNow + (IF first <= maxBackoff THEN first
                                        ELSE maxBackoff)>>)]_vars

\* An execution is in flight after two failures in a row and can succeed.
C29_Witness ==
  /\ inFlight
  /\ ~stopped
  /\ consecutiveFailures >= 2
  /\ runs >= 3
  /\ ENABLED FnSettle(TRUE)

\* C30: startResilientInterval does not call the task: it leaves a timer due
\* one base interval later; the first execution begins no earlier than one
\* base interval after the start, and never when stop() came first.
C30_FirstRunAfterOneInterval ==
  [][/\ (~ivStarted /\ ivStarted') =>
          /\ runs' = 0
          /\ ~inFlight'
          /\ intervalMs' >= 1
          /\ timer' = <<ivNow + intervalMs'>>
     /\ (runs = 0 /\ runs' # 0) =>
          /\ runs' = 1
          /\ ivStarted
          /\ ~stopped
          /\ ivNow >= intervalMs
     /\ (stopped /\ runs = 0) => (runs' = 0 /\ ~inFlight')]_vars

\* The first execution began exactly one base interval after the start.
C30_Witness ==
  /\ runs = 1
  /\ inFlight
  /\ intervalMs = 2
  /\ ivNow = intervalMs
  /\ consecutiveFailures = 0

\* C31: stop() can be called in every state of a started runner (before the
\* first execution, between executions, during one, after an earlier stop):
\* it leaves stopped set and no timer pending, touches nothing else, and a
\* call on a stopped runner changes nothing at all.
C31_StopIdempotent ==
  [][/\ ivStarted => ENABLED Stop
     /\ stopped => ~ENABLED (Stop /\ vars' # vars)
     /\ Stop => /\ stopped'
                /\ timer' = NoTimer
                /\ UNCHANGED <<inFlight, runs, consecutiveFailures,
                               intervalMs, maxBackoff, multiplier>>]_vars

\* stop() was called during an execution and can be called again.
C31_Witness ==
  /\ stopped
  /\ inFlight
  /\ timer = NoTimer
  /\ runs >= 1
  /\ ENABLED Stop

\* C39: the runtime holds at most one timer of the runner and at most one
\* execution of the task is in flight; no timer is pending while an
\* execution is in flight, so a second one cannot begin before it settles.
C39_OneTimerOneRun ==
  /\ Cardinality(timers) <= 1
  /\ active <= 1
  /\ (active = 1 => timers = {})
  /\ (timer # NoTimer => timers = {timer[1]})

\* The first execution is still in flight three base intervals after the
\* start.
C39_Witness ==
  /\ active = 1
  /\ runs = 1
  /\ ~stopped
  /\ timers = {}
  /\ ivNow >= 3 * intervalMs

\* C32: with exitOnShutdown false, a beginShutdown() call that ends on the
\* clean path (it read a zero counter and its hooks settled before the
\* deadline) resolves only when every hook registered before the shutdown
\* began has completed; the state is then "stopped" and the process has not
\* exited.
C32_CleanShutdownWithoutExit ==
  [][\A t \in TaskIds :
       (/\ ~exitOnShutdown
        /\ tasks[t].kind = "shutdown"
        /\ tasks[t].out # "clean"
        /\ tasks'[t].out = "clean") =>
         /\ tasks[t].sawZero
         /\ now < tasks[t].deadline
         /\ \A i \in 1..Len(hooks) : ~hooks[i].late => i \notin tasks[t].pend
         /\ state' = "stopped"
         /\ ~exited /\ ~exited'
         /\ exitCode' = exitCode]_vars

\* A shutdown with a hook that settled later ended in "stopped" without an
\* exit.
C32_Witness ==
  /\ ~exitOnShutdown
  /\ state = "stopped"
  /\ ~exited
  /\ activeRequests = 0
  /\ now >= 1
  /\ Len(hooks) >= 1
  /\ hooks[1].kind = "async" /\ ~hooks[1].late
  /\ \E t \in TaskIds : tasks[t].kind = "shutdown" /\ tasks[t].out = "clean"
  /\ \A t \in TaskIds : tasks[t].out # "forced"

\* C33: neither a command nor the daemon creates or writes a file: the PID
\* file and the temporary files change only by being removed, so nothing a
\* crash could leave behind ever comes into being.
C33_NoFilesystemState ==
  [][/\ record' # record => record' = NoFile
     /\ \A d \in DaemonPids : tmp'[d] # tmp[d] => tmp'[d] = NoFile]_vars

\* C34: computeInteractive is true when forceInteractive is set, else false
\* when daemon or noInteractive is set, else whether stdin is a TTY;
\* assertInteractiveOrThrow throws exactly for the inputs for which
\* computeInteractive is false.
C34_InteractiveDecision ==
  LET force == uiOpts.forceInteractive = "true"
      quiet == uiOpts.daemon = "true" \/ uiOpts.noInteractive = "true"
      tty == uiStdin = "true"
      expected == force \/ (~quiet /\ tty)
  IN /\ uiCall = "computeInteractive" =>
          /\ force => uiResult = TRUE
          /\ (~force /\ quiet) => uiResult = FALSE
          /\ (~force /\ ~quiet) => uiResult = tty
          /\ ~uiThrew
     /\ uiCall = "assertInteractiveOrThrow" => uiThrew = ~expected

\* forceInteractive wins over daemon on a stdin that is no TTY.
C34_Witness ==
  /\ uiCall = "computeInteractive"
  /\ uiOpts.forceInteractive = "true"
  /\ uiOpts.daemon = "true"
  /\ uiStdin = "false"
  /\ uiResult = TRUE

\* C35: by the time forceTerminate() has called the hooks, every registered
\* hook has been called, by it or by the beginShutdown() before it (which
\* called the hooks registered before draining began), also when one of the
\* hooks throws synchronously or rejects.
C35_ForceInvokesEveryHook ==
  [][\A t \in TaskIds :
       (tasks[t].pc = "forceInvoke" /\ tasks'[t].pc = "forceAwait")
         => \A i \in 1..Len(hooks) :
              i \in ForceInvoked(hooks) \/ ~hooks[i].late]_vars

\* C36: once a beginShutdown() call has ended clean, a hook registered
\* before draining began has been called by exactly one beginShutdown() call
\* (the calls past their hooks.map are counted).
C36_HooksInvokedOnce ==
  (\E t \in TaskIds : tasks[t].out = "clean") =>
    \A i \in 1..Len(hooks) :
      ~hooks[i].late =>
        Cardinality({u \in TaskIds :
                       /\ tasks[u].kind = "shutdown"
                       /\ tasks[u].pc \notin {"gate", "hooks"}}) = 1

\* C37: when a start command spawns a daemon, no daemon spawned earlier is
\* running: none that has reached ready (it has begun or ended its
\* writePid()) and has not exited.
C37_OneDaemonAlive ==
  [][\A e \in DaemonPids :
       (daemons[e].pc = "none" /\ daemons'[e].pc = "spawned") =>
         \A d \in DaemonPids : d \in Alive => daemons[d].pc = "spawned"]_vars

\* C38: when the stop command goes on to SIGKILL a daemon that is still
\* alive (one that had recorded its PID, and has been draining since the
\* SIGTERM), it has waited at least the shutdown deadline the daemon was
\* started with.
C38_StopWaitsOutTheDeadline ==
  [][\A c \in CliIds : \A d \in DaemonPids :
       (/\ cli[c].pc = "kill" /\ cli'[c].pc = "removeKilled"
        /\ daemons[d].pc = "running" /\ daemons[d].wrote
        /\ daemons'[d].pc = "dead")
         => cli[c].waited >= DaemonShutdownTimeoutMs]_vars

====
